---- MODULE Spec2Model ----
(***************************************************************************)
(* A model of wisefoodctl.py, the WiseFood deployment control tool.        *)
(*                                                                         *)
(* The tool is a single-threaded command line program.  Each invocation    *)
(* runs one handler to completion against three pieces of outside state:   *)
(* the environments directory on disk, the executables on the search path  *)
(* and the secrets of the target cluster.  A handler is modelled as the    *)
(* sequence of its statements (pc holds the statements still to run); each *)
(* statement is one action.  Everything a handler prints or does to the    *)
(* outside world is appended to log, in program order.                     *)
(***************************************************************************)
EXTENDS Integers, Sequences, FiniteSets, TLC

VARIABLES
    envRoot,    \* ENV_DIR on disk: "absent", "file" or "dir"
    entries,    \* the children of ENV_DIR: name -> kind of entry
    cluster,    \* the cluster's secrets: <<namespace, name>> -> stored data
    onPath,     \* the TOOLS executables that shutil.which() finds
    osName,     \* platform.system()
    machine,    \* platform.machine()
    cmd,        \* the handler the dispatcher invoked
    args,       \* its arguments
    pc,         \* the statements of the handler still to run
    outcome,    \* "idle", "running", "ok", "fatal" (error()), "uncaught"
    log,        \* what the run has printed and done so far
    ret,        \* the value list_envs returned
    idx,        \* generate_secrets: index of the next secret entry
    arch,       \* install_*: the value get_os_arch() returned
    asked       \* verify_choice: prompts answered so far

vars == <<envRoot, entries, cluster, onPath, osName, machine, cmd, args, pc,
          outcome, log, ret, idx, arch, asked>>

----------------------------------------------------------------------------
(* Bounds of the model *)

\* longest "secrets" list of an input configuration
MaxSecrets == 2

\* most required keys an input configuration lacks
MaxMissing == 1

\* most answers that are neither yes nor no given to one prompt
MaxBadAnswers == 1

----------------------------------------------------------------------------
(* The outside world *)

\* Environment names, listed in the order sorted() gives their paths.
NameOrder == <<"dev", "staging">>

EnvNames == {NameOrder[i] : i \in 1..Len(NameOrder)}

Rank(n) == CHOOSE i \in 1..Len(NameOrder) : NameOrder[i] = n

\* What a child of ENV_DIR can be: nothing, a plain file, an empty
\* directory, a non-empty directory without spec.json, a directory with the
\* spec.json that "tk env add" scaffolds, a directory whose spec.json
\* generate_spec_json has rewritten.
EntryKinds == {"absent", "file", "empty", "nospec", "spec", "managed"}

IsDir(kind) == kind \in {"empty", "nospec", "spec", "managed"}

NonEmptyDir(kind) == kind \in {"nospec", "spec", "managed"}

HasSpecJson(kind) == kind \in {"spec", "managed"}

TOOLS == {"tk", "helm", "kubectl", "jb"}

SecretNames == {"db-pass", "smtp-pass"}

Namespaces == {"wf-dev", "default"}

\* No secret of that name in that namespace.
NoSecret == [type |-> "", data |-> [password |-> <<"", "">>]]

\* base64.b64encode(v.encode("utf-8")).decode("utf-8")
B64(v) == <<"b64", v>>

\* A secret some other party stored earlier.
OldSecret == [type |-> "Opaque", data |-> [password |-> B64("old")]]

----------------------------------------------------------------------------
(* Input configurations *)

Required == {"env", "k8s_context", "namespace", "author"}

\* The configuration file does not load (unreadable or not YAML).
BadYaml ==
    [parsed |-> FALSE, keys |-> {}, env |-> "", k8s_context |-> "",
     namespace |-> "", author |-> "", secrets |-> <<>>]

RECURSIVE SeqsUpTo(_, _)
SeqsUpTo(S, n) ==
    IF n = 0 THEN {<<>>}
    ELSE LET shorter == SeqsUpTo(S, n - 1)
         IN  shorter \cup {Append(s, x) : s \in {t \in shorter : Len(t) = n - 1}, x \in S}

\* A loaded configuration: the keys it has, and the values of those the
\* tool reads.  secrets is the list of name/value entries in file order
\* (an absent "secrets" key reads as the empty list, line 290).
GoodYamls ==
    [parsed : {TRUE},
     keys : {Required \ missing : missing \in {m \in SUBSET Required : Cardinality(m) <= MaxMissing}},
     env : EnvNames,
     k8s_context : {"ctx1"},
     namespace : {"wf-dev"},
     author : {"a@b.com"},
     secrets : SeqsUpTo([name : SecretNames, value : {"pw"}], MaxSecrets)]

Configs == {BadYaml} \cup GoodYamls

NoArgs == [force |-> FALSE, dest |-> "", config |-> BadYaml]

----------------------------------------------------------------------------
(* Log events *)

Ev(kind, what, info, code) == [ev |-> kind, what |-> what, info |-> info, code |-> code]

\* error(): the marked error line; the caller also ends the process
ErrorLine(what, info) == Ev("error", what, info, 1)

\* warning(): the marked warning line
WarningLine(what, info) == Ev("warning", what, info, 0)

\* an exception nobody catches: the interpreter prints the traceback
Traceback(exc) == Ev("traceback", "", exc, 1)

SideEffectKinds == {"mkdir", "run", "write", "api", "validated"}

IsSideEffect(e) == e.ev \in SideEffectKinds

SideEffects(l) == SelectSeq(l, IsSideEffect)

Last(s) == s[Len(s)]

Running == outcome = "running"

Ended == outcome \in {"ok", "fatal", "uncaught"}

\* the process exit status: main returns 0; error() and an uncaught
\* exception both exit with 1
ExitCode == IF outcome = "ok" THEN 0 ELSE 1

----------------------------------------------------------------------------
(* Starting and ending a run *)

World == <<envRoot, entries, cluster, onPath, osName, machine>>

\* main(): parse the arguments and call the handler bound to the subcommand.
Dispatch(c, a, body) ==
    /\ outcome = "idle"
    /\ cmd' = c
    /\ args' = a
    /\ pc' = body
    /\ outcome' = "running"
    /\ log' = <<>>
    /\ ret' = <<>>
    /\ idx' = 1
    /\ arch' = ""
    /\ asked' = 0
    /\ UNCHANGED World

\* pc holds <<function, statement>> pairs; the one at its head runs next.
At(fn, stmt) == Running /\ pc # <<>> /\ Head(pc) = <<fn, stmt>>

\* Some function is at the statement stmt, which calls shared code.
AtStmt(stmt) == Running /\ pc # <<>> /\ Head(pc)[2] = stmt

\* return: drop what is left of the function at the head of pc.
RECURSIVE DropFn(_, _)
DropFn(fn, rest) ==
    IF rest # <<>> /\ Head(rest)[1] = fn THEN DropFn(fn, Tail(rest)) ELSE rest

Return == DropFn(Head(pc)[1], pc)

\* The statement completes, having printed and done events; the handler
\* goes on with rest, and main returns 0 when nothing is left.
Continue(events, rest) ==
    /\ log' = log \o events
    /\ pc' = rest
    /\ outcome' = IF rest = <<>> THEN "ok" ELSE "running"

\* error(msg): print the marked error line and sys.exit(1).
Fatal(events, what, info) ==
    /\ log' = (log \o events) \o <<ErrorLine(what, info)>>
    /\ pc' = <<>>
    /\ outcome' = "fatal"

\* An exception leaves the handler and main: traceback, exit status 1.
Uncaught(exc) ==
    /\ log' = Append(log, Traceback(exc))
    /\ pc' = <<>>
    /\ outcome' = "uncaught"

\* run(cmd, check): spawn exe and wait for it.  A missing executable makes
\* subprocess.run raise FileNotFoundError; a non-zero exit status is fatal
\* when check is set.  sudo and bash belong to the base system.
Spawnable(exe) == exe \in {"sudo", "bash"} \/ exe \in onPath

RunEvent(what, info, rc) == Ev("run", what, info, rc)

Run(exe, what, info, rc, check, rest) ==
    IF ~Spawnable(exe) THEN Uncaught("FileNotFoundError")
    ELSE IF check /\ rc # 0 THEN Fatal(<<RunEvent(what, info, rc)>>, "command", what)
    ELSE Continue(<<RunEvent(what, info, rc)>>, rest)

\* The exit statuses an external process is modelled to return.
ExitStatuses == {0, 1}

----------------------------------------------------------------------------
(* create_env *)

\* create_env with the secrets applied before spec.json is rewritten
CreateEnvBody_SecretsFirst ==
    <<<<"create_env", "load">>, <<"create_env", "check">>, <<"create_env", "mkdir">>,
      <<"create_env", "generate_env">>, <<"create_env", "generate_secrets">>,
      <<"create_env", "generate_spec_json">>, <<"create_env", "generate_env_main">>>>

\* The statements of create_env, in program order.
CreateEnvBody ==
    <<<<"create_env", "load">>, <<"create_env", "check">>, <<"create_env", "mkdir">>,
      <<"create_env", "generate_env">>, <<"create_env", "generate_spec_json">>,
      <<"create_env", "generate_secrets">>, <<"create_env", "generate_env_main">>>>

DispatchCreateEnv ==
    \E config \in Configs, force \in BOOLEAN :
        Dispatch("env", [force |-> force, dest |-> "", config |-> config], CreateEnvBody)

Config == args.config

\* path = ENV_DIR / env_name, as the file system has it.  Below a missing
\* ENV_DIR, or an ENV_DIR that is a plain file, nothing exists.
KindOf(name) == IF envRoot = "dir" THEN entries[name] ELSE "absent"

TargetKind == KindOf(Config.env)

\* try: env_spec = load_yaml(path); env_name = env_spec["env"]
\* except Exception as e: error(...)
LoadConfig ==
    /\ At("create_env", "load")
    /\ IF ~Config.parsed THEN Fatal(<<>>, "config", "YAMLError")
       ELSE IF "env" \notin Config.keys THEN Fatal(<<>>, "config", "KeyError:env")
       ELSE Continue(<<>>, Tail(pc))
    /\ UNCHANGED <<World, cmd, args, ret, idx, arch, asked>>

\* the guard looking for an environment (a spec.json) instead of any content
RefusesExisting_OnlyEnvs(kind, force) == HasSpecJson(kind) /\ ~force

\* path.exists() and any(path.iterdir()) and not force
RefusesExisting(kind, force) == NonEmptyDir(kind) /\ ~force

CheckExisting ==
    /\ At("create_env", "check")
    /\ IF TargetKind = "file" THEN Uncaught("NotADirectoryError")
       ELSE IF RefusesExisting(TargetKind, args.force)
            THEN Fatal(<<>>, "exists", Config.env)
       ELSE Continue(<<>>, Tail(pc))
    /\ UNCHANGED <<World, cmd, args, ret, idx, arch, asked>>

\* The exception path.mkdir(parents=True, exist_ok=exist_ok) raises, "" for
\* none: a plain file on the way is never accepted, an existing directory
\* only with exist_ok.
MkdirRaises(root, kind, exist_ok) ==
    IF root = "file" THEN "NotADirectoryError"
    ELSE IF root = "dir" /\ kind = "file" THEN "FileExistsError"
    ELSE IF root = "dir" /\ IsDir(kind) /\ ~exist_ok THEN "FileExistsError"
    ELSE ""

\* path.mkdir(parents=True, exist_ok=force)
MakeDir ==
    /\ At("create_env", "mkdir")
    /\ LET exc == MkdirRaises(envRoot, KindOf(Config.env), args.force)
       IN  IF exc # "" THEN Uncaught(exc) /\ UNCHANGED <<envRoot, entries>>
           ELSE /\ Continue(<<Ev("mkdir", Config.env, "", 0)>>, Tail(pc))
                /\ envRoot' = "dir"
                /\ entries' = IF TargetKind = "absent"
                              THEN [entries EXCEPT ![Config.env] = "empty"]
                              ELSE entries
    /\ UNCHANGED <<cluster, onPath, osName, machine, cmd, args, ret, idx, arch, asked>>

\* generate_env: run(["tk", "env", "add", path, "--context-name",
\* env_spec["k8s_context"], "--namespace", env_spec["namespace"]], check=True).
\* A successful "tk env add" leaves the scaffolded spec.json in the directory.
GenerateEnv ==
    /\ At("create_env", "generate_env")
    /\ IF "k8s_context" \notin Config.keys
       THEN Uncaught("KeyError:k8s_context") /\ UNCHANGED entries
       ELSE IF "namespace" \notin Config.keys
       THEN Uncaught("KeyError:namespace") /\ UNCHANGED entries
       ELSE \E rc \in ExitStatuses :
               /\ Run("tk", "tk env add", Config.namespace, rc, TRUE, Tail(pc))
               /\ entries' = IF Spawnable("tk") /\ rc = 0
                             THEN [entries EXCEPT ![Config.env] = "spec"]
                             ELSE entries
    /\ UNCHANGED <<envRoot, cluster, onPath, osName, machine, cmd, args, ret, idx, arch, asked>>

\* generate_spec_json: load spec.json, set the fields, dump it back.
GenerateSpecJson ==
    /\ At("create_env", "generate_spec_json")
    /\ IF ~HasSpecJson(TargetKind)
       THEN Uncaught("FileNotFoundError") /\ UNCHANGED entries
       ELSE IF "author" \notin Config.keys
       THEN Uncaught("KeyError:author") /\ UNCHANGED entries
       ELSE /\ Continue(<<Ev("write", "spec.json", Config.env, 0)>>, Tail(pc))
            /\ entries' = [entries EXCEPT ![Config.env] = "managed"]
    /\ UNCHANGED <<envRoot, cluster, onPath, osName, machine, cmd, args, ret, idx, arch, asked>>
----------------------------------------------------------------------------
(* generate_secrets and create_and_apply_k8s_secret *)

\* namespace = env_spec.get("namespace", "default")
SecretNamespace(config) ==
    IF "namespace" \in config.keys THEN config.namespace ELSE "default"

\* The V1Secret built from one entry: type Opaque, the value base64-encoded
\* under the key "password".
SecretBody(value) == [type |-> "Opaque", data |-> [password |-> B64(value)]]

\* The HTTP status create_namespaced_secret can end with: created (201) only
\* for a name the namespace does not hold, conflict (409) only for one it
\* holds, and the failures the server gives whatever is stored (403, 500).
ApiAnswers(key) ==
    (IF cluster[key] = NoSecret THEN {201} ELSE {409}) \cup {403, 500}

\* the handler without the branch for 409
AnswerIsFatal_NoConflictBranch(status) == status # 201

\* What the handler of the API answer prints and whether it goes on:
\* info on success, a warning on 409, error() on anything else.
AnswerIsFatal(status) == status \notin {201, 409}

\* One iteration of the loop of generate_secrets: build the secret, load the
\* kube config, call the API and handle its answer.
ApplySecret ==
    /\ At("create_env", "generate_secrets")
    /\ idx <= Len(Config.secrets)
    /\ LET entry == Config.secrets[idx]
           ns == SecretNamespace(Config)
           key == <<ns, entry.name>>
       IN  \/ /\ Uncaught("ConfigException")
              /\ UNCHANGED <<cluster, idx>>
           \/ \E status \in ApiAnswers(key) :
                 LET call == Ev("api", entry.name, ns, status)
                 IN  /\ cluster' = IF status = 201
                                   THEN [cluster EXCEPT ![key] = SecretBody(entry.value)]
                                   ELSE cluster
                     /\ IF AnswerIsFatal(status)
                        THEN Fatal(<<call>>, "api", entry.name) /\ UNCHANGED idx
                        ELSE /\ Continue(IF status = 409
                                         THEN <<call, WarningLine("exists", entry.name)>>
                                         ELSE <<call>>,
                                         pc)
                             /\ idx' = idx + 1
    /\ UNCHANGED <<envRoot, entries, onPath, osName, machine, cmd, args, ret, arch, asked>>

\* The loop is over: the closing info line of generate_secrets.
SecretsDone ==
    /\ At("create_env", "generate_secrets")
    /\ idx > Len(Config.secrets)
    /\ Continue(<<>>, Tail(pc))
    /\ UNCHANGED <<World, cmd, args, ret, idx, arch, asked>>

\* generate_env_main: pass
GenerateEnvMain ==
    /\ At("create_env", "generate_env_main")
    /\ Continue(<<>>, Tail(pc))
    /\ UNCHANGED <<World, cmd, args, ret, idx, arch, asked>>

----------------------------------------------------------------------------
(* list_envs *)

\* sorted(): insertion of each element at its place in path order
RECURSIVE Insert(_, _)
Insert(sorted, n) ==
    IF sorted = <<>> THEN <<n>>
    ELSE IF Rank(n) <= Rank(Head(sorted)) THEN <<n>> \o sorted
    ELSE <<Head(sorted)>> \o Insert(Tail(sorted), n)

RECURSIVE Sorted(_)
Sorted(s) == IF s = <<>> THEN <<>> ELSE Insert(Sorted(Tail(s)), Head(s))

\* p.is_dir() and (p / "spec.json").exists()
IsEnv(name) == IsDir(entries[name]) /\ HasSpecJson(entries[name])

\* list_envs iterating over ENV_DIR.iterdir() without sorted()
ListEnvsResult_Unsorted(listing) == SelectSeq(listing, IsEnv)

\* The loop of list_envs over the directory listing, given in the order the
\* operating system returned it.
ListEnvsResult(listing) == SelectSeq(Sorted(listing), IsEnv)

\* The orders in which iterdir() can yield the names in S.
Listings(S) ==
    {s \in [1..Cardinality(S) -> S] : \A i, j \in DOMAIN s : i # j => s[i] # s[j]}

Present == {n \in EnvNames : KindOf(n) # "absent"}

DispatchListEnvs == Dispatch("list", NoArgs, <<<<"list_envs", "list">>>>)

ListEnvs ==
    /\ At("list_envs", "list")
    /\ IF envRoot = "absent" THEN Continue(<<>>, Tail(pc)) /\ ret' = <<>>
       ELSE IF envRoot = "file" THEN Uncaught("NotADirectoryError") /\ ret' = <<>>
       ELSE \E listing \in Listings(Present) :
               /\ Continue(<<>>, Tail(pc))
               /\ ret' = ListEnvsResult(listing)
    /\ UNCHANGED <<World, cmd, args, idx, arch, asked>>

----------------------------------------------------------------------------
(* The environment commands: "env" and "list" *)

IdleRun ==
    /\ cmd = "none"
    /\ args = NoArgs
    /\ pc = <<>>
    /\ outcome = "idle"
    /\ log = <<>>
    /\ ret = <<>>
    /\ idx = 1
    /\ arch = ""
    /\ asked = 0

\* The process has exited; the tool can be invoked again on the world the
\* run left behind.
Exit ==
    /\ Ended
    /\ cmd' = "none"
    /\ args' = NoArgs
    /\ pc' = <<>>
    /\ outcome' = "idle"
    /\ log' = <<>>
    /\ ret' = <<>>
    /\ idx' = 1
    /\ arch' = ""
    /\ asked' = 0
    /\ UNCHANGED World

\* Any environments directory, any secrets left in the target namespace by
\* others, on a supported host with the tools installed.
InitEnv ==
    /\ envRoot \in {"absent", "file", "dir"}
    /\ entries \in [EnvNames -> EntryKinds]
    /\ envRoot # "dir" => \A n \in EnvNames : entries[n] = "absent"
    /\ cluster \in [Namespaces \X SecretNames -> {NoSecret, OldSecret}]
    /\ \A n \in SecretNames : cluster[<<"default", n>>] = NoSecret
    /\ onPath = TOOLS
    /\ osName = "Linux"
    /\ machine = "x86_64"
    /\ IdleRun

NextEnv ==
    \/ DispatchCreateEnv
    \/ LoadConfig
    \/ CheckExisting
    \/ MakeDir
    \/ GenerateEnv
    \/ GenerateSpecJson
    \/ ApplySecret
    \/ SecretsDone
    \/ GenerateEnvMain
    \/ DispatchListEnvs
    \/ ListEnvs
    \/ Exit

SpecEnv == InitEnv /\ [][NextEnv]_vars
----------------------------------------------------------------------------
(* get_os_arch *)

\* The values platform.system() and platform.machine() are modelled to give.
OsNames == {"Linux", "Darwin"}

Machines == {"x86_64", "AMD64", "aarch64", "arm64", "armv8l", "armv7l", "armv6l", "i686"}

\* str.lower() on those values
Lower(str) ==
    CASE str = "Linux" -> "linux"
      [] str = "Darwin" -> "darwin"
      [] str = "AMD64" -> "amd64"
      [] OTHER -> str

\* The architecture get_os_arch returns, "" when it calls error() instead.
GetOsArch(os, mach) ==
    LET os_name == Lower(os)
        a == Lower(mach)
    IN  IF os_name = "linux"
        THEN IF a \in {"x86_64", "amd64"} THEN "amd64"
             ELSE IF a \in {"aarch64", "arm64", "armv8l"} THEN "arm64"
             ELSE IF a \in {"armv7l", "armv6l"} THEN "arm"
             ELSE ""
        ELSE ""

\* INSTALLATION_URLS, each URL named by the release asset it ends in; the
\* arm64 entries are lists of two.
INSTALLATION_URLS ==
    [tk_amd64 |-> <<"tk-linux-amd64">>,
     tk_arm64 |-> <<"tk-linux-arm", "tk-linux-arm64">>,
     jb_amd64 |-> <<"jb-linux-amd64">>,
     jb_arm64 |-> <<"jb-linux-arm", "jb-linux-arm64">>]

\* url = INSTALLATION_URLS["tk_amd64"] if arch == "amd64"
\*       else INSTALLATION_URLS["tk_arm64"][1]      (Python counts from 0)
TkUrl(a) == IF a = "amd64" THEN INSTALLATION_URLS.tk_amd64[1] ELSE INSTALLATION_URLS.tk_arm64[2]

JbUrl(a) == IF a = "amd64" THEN INSTALLATION_URLS.jb_amd64[1] ELSE INSTALLATION_URLS.jb_arm64[2]

\* The architecture a release asset is built for.
AssetArch(url) ==
    CASE url \in {"tk-linux-amd64", "jb-linux-amd64"} -> "amd64"
      [] url \in {"tk-linux-arm64", "jb-linux-arm64"} -> "arm64"
      [] url \in {"tk-linux-arm", "jb-linux-arm"} -> "arm"

----------------------------------------------------------------------------
(* install_tanka, install_jb, install_helm *)

Installers == {"install_tanka", "install_jb"}

\* the executable each installer looks for and installs
ToolOf(fn) == IF fn = "install_tanka" THEN "tk" ELSE "jb"

UrlOf(fn, a) == IF fn = "install_tanka" THEN TkUrl(a) ELSE JbUrl(a)

\* the default of the dest parameter, a directory of the search path
DefaultDest(fn) == IF fn = "install_tanka" THEN "/usr/local/bin/tk" ELSE "/usr/local/bin/jb"

\* a --dest outside the search path
OtherDest == "/opt/wisefood/bin"

InstallBody(fn) ==
    <<<<fn, "get_os_arch">>, <<fn, "which">>, <<fn, "curl">>, <<fn, "chmod">>, <<fn, "version">>>>

InstallHelmBody == <<<<"install_helm", "script">>, <<"install_helm", "version">>>>

\* The arguments of the installer that is running: the command line's, or
\* the defaults when hard_init calls it.
Force == IF cmd = "init" THEN FALSE ELSE args.force

Dest(fn) == IF cmd = "init" THEN DefaultDest(fn) ELSE args.dest

DispatchInstall ==
    \E fn \in Installers, force \in BOOLEAN :
      \E dest \in {DefaultDest(fn), OtherDest} :
        Dispatch(fn, [force |-> force, dest |-> dest, config |-> BadYaml], InstallBody(fn))

DispatchInstallHelm == Dispatch("install_helm", NoArgs, InstallHelmBody)

\* arch = get_os_arch()
InstallArch(fn) ==
    /\ At(fn, "get_os_arch")
    /\ LET a == GetOsArch(osName, machine)
       IN  IF a = "" THEN Fatal(<<>>, "platform", machine) /\ arch' = arch
           ELSE Continue(<<>>, Tail(pc)) /\ arch' = a
    /\ UNCHANGED <<World, cmd, args, ret, idx, asked>>

\* if shutil.which(tool) and not force: info(...); return
AlreadyPresent(tool, force) == tool \in onPath /\ ~force

InstallWhich(fn) ==
    /\ At(fn, "which")
    /\ IF AlreadyPresent(ToolOf(fn), Force) THEN Continue(<<>>, Return)
       ELSE Continue(<<>>, Tail(pc))
    /\ UNCHANGED <<World, cmd, args, ret, idx, arch, asked>>

\* run(["sudo", "curl", "-fsSL", "-o", dest, url], interactive=True)
InstallCurl(fn) ==
    /\ At(fn, "curl")
    /\ \E rc \in ExitStatuses : Run("sudo", "curl", UrlOf(fn, arch), rc, TRUE, Tail(pc))
    /\ UNCHANGED <<World, cmd, args, ret, idx, arch, asked>>

\* run(["sudo", "chmod", "a+x", dest], interactive=True): from here on the
\* executable is found when dest is on the search path.
InstallChmod(fn) ==
    /\ At(fn, "chmod")
    /\ \E rc \in ExitStatuses :
          /\ Run("sudo", "chmod", Dest(fn), rc, TRUE, Tail(pc))
          /\ onPath' = IF rc = 0 /\ Dest(fn) = DefaultDest(fn)
                       THEN onPath \cup {ToolOf(fn)}
                       ELSE onPath
    /\ UNCHANGED <<envRoot, entries, cluster, osName, machine, cmd, args, ret, idx, arch, asked>>

\* run([tool, "version"], check=False); info(...)
InstallVersion(fn) ==
    /\ At(fn, "version")
    /\ \E rc \in ExitStatuses : Run(ToolOf(fn), "version", ToolOf(fn), rc, FALSE, Tail(pc))
    /\ UNCHANGED <<World, cmd, args, ret, idx, arch, asked>>

\* run(["bash", "-lc", "curl ... get-helm-3 | bash"], interactive=True)
InstallHelmScript ==
    /\ At("install_helm", "script")
    /\ \E rc \in ExitStatuses :
          /\ Run("bash", "curl", "get-helm-3", rc, TRUE, Tail(pc))
          /\ onPath' = IF rc = 0 THEN onPath \cup {"helm"} ELSE onPath
    /\ UNCHANGED <<envRoot, entries, cluster, osName, machine, cmd, args, ret, idx, arch, asked>>

\* run(["helm", "version"], check=False); info(...)
InstallHelmVersion ==
    /\ At("install_helm", "version")
    /\ \E rc \in ExitStatuses : Run("helm", "version", "helm", rc, FALSE, Tail(pc))
    /\ UNCHANGED <<World, cmd, args, ret, idx, arch, asked>>

----------------------------------------------------------------------------
(* validate_tools, validate_structure, validate_setup, setup_dir_structure *)

\* missing_tools = [name for name, cmd in TOOLS.items() if which(cmd) is None]
MissingTools == TOOLS \ onPath

\* validate_tools(), wherever it is called from
ValidateTools ==
    /\ AtStmt("validate_tools")
    /\ IF MissingTools # {} THEN Fatal(<<>>, "missing_tools", "")
       ELSE Continue(<<Ev("validated", "tools", "", 0)>>, Tail(pc))
    /\ UNCHANGED <<World, cmd, args, ret, idx, arch, asked>>

\* validate_structure()
ValidateStructure ==
    /\ AtStmt("validate_structure")
    /\ IF envRoot # "dir" THEN Fatal(<<>>, "structure", "")
       ELSE Continue(<<Ev("validated", "structure", "", 0)>>, Tail(pc))
    /\ UNCHANGED <<World, cmd, args, ret, idx, arch, asked>>

ValidateSetupBody ==
    <<<<"validate_setup", "validate_tools">>, <<"validate_setup", "validate_structure">>>>

DispatchValidate == Dispatch("validate", NoArgs, ValidateSetupBody)

\* setup_dir_structure(): if not ENV_DIR.exists(): ENV_DIR.mkdir(parents=True)
SetupDirStructure ==
    /\ AtStmt("setup_dir_structure")
    /\ IF envRoot = "absent"
       THEN Continue(<<Ev("mkdir", "ENV_DIR", "", 0)>>, Tail(pc)) /\ envRoot' = "dir"
       ELSE Continue(<<>>, Tail(pc)) /\ envRoot' = envRoot
    /\ UNCHANGED <<entries, cluster, onPath, osName, machine, cmd, args, ret, idx, arch, asked>>

----------------------------------------------------------------------------
(* deps_update, deps_vendor *)

\* deps_update without its call of validate_tools
DepsUpdateBody_NoValidation == <<<<"deps_update", "run">>>>

DepsUpdateBody == <<<<"deps_update", "validate_tools">>, <<"deps_update", "run">>>>

DepsVendorBody == <<<<"deps_vendor", "validate_tools">>, <<"deps_vendor", "run">>>>

DispatchDepsUpdate == Dispatch("deps_update", NoArgs, DepsUpdateBody)

DispatchDepsVendor == Dispatch("deps_vendor", NoArgs, DepsVendorBody)

\* run(["jb", "update"], cwd=REPO_ROOT)
DepsUpdateRun ==
    /\ At("deps_update", "run")
    /\ \E rc \in ExitStatuses : Run("jb", "jb update", "", rc, TRUE, Tail(pc))
    /\ UNCHANGED <<World, cmd, args, ret, idx, arch, asked>>

\* run(["tk", "tool", "charts", "vendor"], cwd=REPO_ROOT)
DepsVendorRun ==
    /\ At("deps_vendor", "run")
    /\ \E rc \in ExitStatuses : Run("tk", "tk tool charts vendor", "", rc, TRUE, Tail(pc))
    /\ UNCHANGED <<World, cmd, args, ret, idx, arch, asked>>

IsDepsRun(e) == e.ev = "run" /\ e.what \in {"jb update", "tk tool charts vendor"}

----------------------------------------------------------------------------
(* verify_choice and hard_init *)

\* What the operator can type at the prompt; "EOF" stands for a closed
\* standard input.
Answers == {"y", " Yes ", "n", "No", "", "maybe", "EOF"}

\* input(...).strip().lower()
StripLower(str) ==
    CASE str = " Yes " -> "yes"
      [] str = "No" -> "no"
      [] OTHER -> str

\* verify_choice taking whatever is not a no for a yes
VerifyChoice_DefaultYes(answer) ==
    LET choice == StripLower(answer)
    IN  IF choice \in {"n", "no"} THEN "false" ELSE "true"

\* verify_choice's reading of one answer: TRUE and FALSE are returned, "again"
\* prints the hint and asks once more.
VerifyChoice(answer) ==
    LET choice == StripLower(answer)
    IN  IF choice \in {"y", "yes"} THEN "true"
        ELSE IF choice \in {"n", "no"} THEN "false"
        ELSE "again"

HardInitBody ==
    <<<<"hard_init", "warning">>, <<"hard_init", "verify_choice">>,
      <<"hard_init", "setup_dir_structure">>>>
    \o InstallBody("install_jb")
    \o InstallBody("install_tanka")
    \o <<<<"hard_init", "validate_tools">>>>
    \o DepsUpdateBody
    \o DepsVendorBody

DispatchHardInit == Dispatch("init", NoArgs, HardInitBody)

\* warning("This will initialize the deployment setup ...")
HardInitWarning ==
    /\ At("hard_init", "warning")
    /\ Continue(<<WarningLine("init", "")>>, Tail(pc))
    /\ UNCHANGED <<World, cmd, args, ret, idx, arch, asked>>

\* if not verify_choice(...): info("Aborted."); return
\* One pass of the loop of verify_choice: read an answer and decide.
HardInitConfirm ==
    /\ At("hard_init", "verify_choice")
    /\ \E answer \in Answers :
          IF answer = "EOF" THEN Uncaught("EOFError") /\ asked' = asked
          ELSE LET decision == VerifyChoice(answer)
                   prompt == Ev("prompt", answer, decision, 0)
               IN  /\ decision = "again" => asked < MaxBadAnswers
                   /\ asked' = asked + 1
                   /\ Continue(<<prompt>>,
                               IF decision = "true" THEN Tail(pc)
                               ELSE IF decision = "false" THEN <<>>
                               ELSE pc)
    /\ UNCHANGED <<World, cmd, args, ret, idx, arch>>

----------------------------------------------------------------------------
(* The tooling commands: "install", "deps", "validate" and "init" *)

\* Any host, any set of tools already installed, any environments directory;
\* no environment and no secret plays a part.
InitTools ==
    /\ envRoot \in {"absent", "file", "dir"}
    /\ entries = [n \in EnvNames |-> "absent"]
    /\ cluster = [k \in Namespaces \X SecretNames |-> NoSecret]
    /\ onPath \in SUBSET TOOLS
    /\ osName \in OsNames
    /\ machine \in Machines
    /\ IdleRun

NextTools ==
    \/ DispatchInstall
    \/ DispatchInstallHelm
    \/ DispatchValidate
    \/ DispatchDepsUpdate
    \/ DispatchDepsVendor
    \/ DispatchHardInit
    \/ \E fn \in Installers : InstallArch(fn)
    \/ \E fn \in Installers : InstallWhich(fn)
    \/ \E fn \in Installers : InstallCurl(fn)
    \/ \E fn \in Installers : InstallChmod(fn)
    \/ \E fn \in Installers : InstallVersion(fn)
    \/ InstallHelmScript
    \/ InstallHelmVersion
    \/ ValidateTools
    \/ ValidateStructure
    \/ SetupDirStructure
    \/ DepsUpdateRun
    \/ DepsVendorRun
    \/ HardInitWarning
    \/ HardInitConfirm
    \/ Exit

SpecTools == InitTools /\ [][NextTools]_vars
----------------------------------------------------------------------------
(* Properties of create_env, generate_secrets and list_envs (SpecEnv) *)

\* The configuration loaded and names its environment: create_env has a
\* target directory.
HasTarget == cmd = "env" /\ Config.parsed /\ "env" \in Config.keys

\* create_env has not got past its existence check: the disk is as it was
\* when the command was invoked.
BeforeMkdir ==
    Running /\ pc # <<>>
        /\ Head(pc) \in {<<"create_env", "load">>, <<"create_env", "check">>}

\* C1: create_env with force=False on a target directory that exists and is
\* not empty fails fatally at the existence check, before any directory
\* creation, renderer invocation, spec.json rewrite or secret creation: no
\* step of such a run changes the disk or the cluster or does anything else
\* to the outside, the run never gets past the check, and the step at the
\* check ends it with the marked "already exists" error.
C1_NoForceNonEmptyFails ==
    [][(BeforeMkdir /\ HasTarget /\ ~args.force /\ NonEmptyDir(TargetKind))
        => /\ envRoot' = envRoot
           /\ entries' = entries
           /\ cluster' = cluster
           /\ SideEffects(log') = <<>>
           /\ outcome' \in {"running", "fatal"}
           /\ outcome' = "running" => (pc' # <<>> /\ Head(pc') = <<"create_env", "check">>)
           /\ At("create_env", "check")
                => (outcome' = "fatal" /\ Last(log') = ErrorLine("exists", Config.env))]_vars

\* A run without force against a non-empty target has ended fatally.
C1_Witness ==
    /\ HasTarget
    /\ ~args.force
    /\ NonEmptyDir(TargetKind)
    /\ outcome = "fatal"
    /\ log = <<ErrorLine("exists", Config.env)>>

\* The API calls among the events a step appended.
ApiCalls(l) == SelectSeq(l, LAMBDA e : e.ev = "api")

\* C2: when the API answers 409 for a secret, the step leaves every stored
\* secret as it was, prints only the warning, raises nothing and moves the
\* loop on to the next entry of the input; a secret that exists is never
\* replaced; any other failure status ends the run in error() with the
\* cluster untouched, and a run that has ended makes no further API call.
C2_ConflictIsWarning ==
    [][/\ (At("create_env", "generate_secrets") /\ Len(log') > Len(log)
            /\ log'[Len(log) + 1].ev = "api")
          => LET call == log'[Len(log) + 1]
                 key == <<call.info, call.what>>
             IN  /\ cluster[key] # NoSecret => cluster'[key] = cluster[key]
                 /\ call.code = 409
                      => /\ cluster' = cluster
                         /\ log' = log \o <<call, WarningLine("exists", call.what)>>
                         /\ outcome' = "running"
                         /\ pc' = pc
                         /\ idx' = idx + 1
                 /\ call.code \notin {201, 409}
                      => /\ cluster' = cluster
                         /\ outcome' = "fatal"
                         /\ Last(log').ev = "error"
       /\ Ended => ApiCalls(log') = <<>>]_vars

\* A completed run in which a conflict on a secret stored by others was
\* followed by the application of a later entry.
C2_Witness ==
    /\ cmd = "env"
    /\ outcome = "ok"
    /\ \E i, j \in DOMAIN log :
          /\ i < j
          /\ log[i].ev = "api" /\ log[i].code = 409
          /\ log[j].ev = "api" /\ log[j].code = 201
          /\ cluster[<<log[i].info, log[i].what>>] = OldSecret

\* C3: what a create_env run does to the outside is, in this order, the
\* directory creation, one "tk env add", the rewrite of spec.json and then
\* the secret-creation calls, one per entry of the input's secrets in input
\* order and all in the input's namespace; the rewrite and the calls come
\* only after a "tk env add" that exited with 0; a run that completes has
\* made exactly one call per entry.
C3_StepOrder ==
    cmd = "env" =>
        LET s == SideEffects(log)
            n == Len(Config.secrets)
        IN  /\ Len(s) <= 3 + n
            /\ \A i \in DOMAIN s :
                  /\ i = 1 => s[i].ev = "mkdir"
                  /\ i = 2 => (s[i].ev = "run" /\ s[i].what = "tk env add")
                  /\ i = 3 => (s[i].ev = "write" /\ s[2].code = 0)
                  /\ i > 3 => /\ s[i].ev = "api"
                              /\ i - 3 <= n
                              /\ s[i].what = Config.secrets[i - 3].name
                              /\ s[i].info = Config.namespace
            /\ outcome = "ok" => Len(s) = 3 + n

\* A completed run for an input with two secrets.
C3_Witness ==
    /\ cmd = "env"
    /\ outcome = "ok"
    /\ Len(Config.secrets) >= 2
    /\ Len(ApiCalls(log)) = Len(Config.secrets)

\* The exceptions a configuration that does not parse or lacks a required
\* key gives rise to.
ConfigExceptions ==
    {"YAMLError", "KeyError:env", "KeyError:k8s_context", "KeyError:namespace",
     "KeyError:author"}

\* C4: every create_env run that stops on a parse failure or on the access
\* of a missing required key stops in the fatal-error outcome, its last
\* line being the marked error line that carries the exception.
C4_ConfigErrorsAreMarked ==
    (cmd = "env" /\ Ended /\ log # <<>>
       /\ Last(log).ev \in {"error", "traceback"}
       /\ Last(log).info \in ConfigExceptions)
    => (outcome = "fatal" /\ Last(log).ev = "error")

\* C5: the directory-creation step of create_env never raises, whatever the
\* state of the target below a usable environments directory: the step
\* creates or accepts the directory and the run goes on.
C5_MkdirNeverRaises ==
    [][(At("create_env", "mkdir") /\ envRoot # "file")
        => (outcome' = "running" /\ Last(log').ev = "mkdir")]_vars

\* C9: list_envs returns, in sorted order and without repetition, exactly
\* the names under the environment root that are directories holding a
\* spec.json; it does not raise when the root is absent or a directory, and
\* an absent or empty root gives the empty list.
C9_ListEnvs ==
    (cmd = "list" /\ Ended) =>
        /\ envRoot \in {"absent", "dir"} => outcome = "ok"
        /\ outcome = "ok" =>
              /\ \A i, j \in DOMAIN ret : i < j => Rank(ret[i]) < Rank(ret[j])
              /\ {ret[i] : i \in DOMAIN ret}
                    = {n \in EnvNames : envRoot = "dir" /\ entries[n] \in {"spec", "managed"}}
        /\ (envRoot = "absent" \/ (envRoot = "dir" /\ \A n \in EnvNames : entries[n] = "absent"))
              => (outcome = "ok" /\ ret = <<>>)

\* list_envs has returned both names in order, or one name while a plain
\* file, an empty directory or a directory without spec.json was left out.
C9_Witness ==
    /\ cmd = "list"
    /\ outcome = "ok"
    /\ \/ Len(ret) = 2
       \/ Len(ret) = 1 /\ \E n \in EnvNames : entries[n] \in {"file", "empty", "nospec"}

----------------------------------------------------------------------------
(* Properties of the tooling commands (SpecTools) *)

RunEvents(l) == SelectSeq(l, LAMBDA e : e.ev = "run")

\* C6 as stated: a dependency command is spawned only when both the
\* required tools and the environments directory are there.
C6_ValidatedToolsAndStructure ==
    \A i \in DOMAIN log :
        IsDepsRun(log[i]) => (MissingTools = {} /\ envRoot = "dir")

\* C6 as amended: a dependency command is spawned only right after the
\* required-tool validation has passed (the environments directory is not
\* looked at); when a tool is missing the command ends fatally without
\* spawning anything; a non-zero exit of the spawned process ends the
\* action with the marked error line that names the command.
C6_ValidatedToolsOnly ==
    /\ \A i \in DOMAIN log :
          IsDepsRun(log[i]) =>
              /\ i > 1
              /\ log[i - 1] = Ev("validated", "tools", "", 0)
              /\ MissingTools = {}
              /\ log[i].code # 0
                    => /\ outcome = "fatal"
                       /\ Len(log) = i + 1
                       /\ log[i + 1] = ErrorLine("command", log[i].what)
    /\ (cmd \in {"deps_update", "deps_vendor"} /\ Ended /\ MissingTools # {})
          => (outcome = "fatal" /\ RunEvents(log) = <<>>)

\* A dependency command has run to a non-zero exit, and done so without an
\* environments directory.
C6_Witness ==
    /\ cmd \in {"deps_update", "deps_vendor"}
    /\ envRoot = "absent"
    /\ outcome = "fatal"
    /\ \E i \in DOMAIN log : IsDepsRun(log[i]) /\ log[i].code = 1

\* the executable an install command is about
InstalledTool(c) == IF c = "install_helm" THEN "helm" ELSE ToolOf(c)

\* C7: an install operation started without force on a supported host where
\* its executable is already on the search path spawns nothing and returns
\* without error.
C7_PresentMeansNoDownload ==
    [][(Running /\ cmd \in {"install_tanka", "install_jb", "install_helm"}
          /\ ~args.force
          /\ InstalledTool(cmd) \in onPath
          /\ GetOsArch(osName, machine) # ""
          /\ RunEvents(log) = <<>>)
        => (RunEvents(log') = <<>> /\ outcome' \in {"running", "ok"})]_vars

YesAnswers == {"y", " Yes "}

NoAnswers == {"n", "No"}

\* C8: in hard_init everything done to the outside (directory creation,
\* install, tool validation, dependency command) comes after a prompt that
\* was answered yes; an answer no is the last thing of the run, which ends
\* without having done anything; after an answer that is neither, the next
\* thing is the prompt again (or the end of the input).
C8_ConfirmFirst ==
    cmd = "init" =>
        \A i \in DOMAIN log :
            /\ IsSideEffect(log[i])
                  => \E j \in 1..(i - 1) : log[j].ev = "prompt" /\ log[j].what \in YesAnswers
            /\ (log[i].ev = "prompt" /\ log[i].what \in NoAnswers)
                  => (i = Len(log) /\ outcome = "ok" /\ SideEffects(log) = <<>>)
            /\ (log[i].ev = "prompt" /\ log[i].what \notin (YesAnswers \cup NoAnswers))
                  => IF i = Len(log) THEN At("hard_init", "verify_choice")
                     ELSE log[i + 1].ev \in {"prompt", "traceback"}

\* hard_init asked again after an answer that was neither, was then told
\* yes, and has gone on to act.
C8_Witness ==
    /\ cmd = "init"
    /\ \E i, j, k \in DOMAIN log :
          /\ i < j /\ j < k
          /\ log[i].ev = "prompt" /\ log[i].what \notin (YesAnswers \cup NoAnswers)
          /\ log[j].ev = "prompt" /\ log[j].what \in YesAnswers
          /\ IsSideEffect(log[k])

\* The mapping the architecture detection is to implement; "" is the fatal
\* error.
ClaimedArch(os, mach) ==
    IF os # "Linux" THEN ""
    ELSE CASE mach \in {"x86_64", "AMD64"} -> "amd64"
           [] mach \in {"aarch64", "arm64", "armv8l"} -> "arm64"
           [] mach \in {"armv7l", "armv6l"} -> "arm"
           [] OTHER -> ""

\* C10: get_os_arch implements that mapping, and the binary install_tanka
\* and install_jb download is the one built for the architecture it
\* returned.
C10_DownloadMatchesArch ==
    /\ GetOsArch(osName, machine) = ClaimedArch(osName, machine)
    /\ \A i \in DOMAIN log :
          (log[i].ev = "run" /\ log[i].what = "curl" /\ log[i].info # "get-helm-3")
              => AssetArch(log[i].info) = GetOsArch(osName, machine)
====
